---- MODULE Spec2Model ----
(***************************************************************************)
(* Model of pan-rule-order.py: one run of main() over a Panorama XML       *)
(* document, a CSV order list and an output path.                          *)
(*                                                                         *)
(* A document is the part of the element tree the program navigates:       *)
(*   xmlns   the namespace URI the root declares ("" when it declares none)*)
(*   shared  the post-rulebase and pre-rulebase security rules containers  *)
(*   groups  the device-group entries in document order, each with its     *)
(*           own post-rulebase and pre-rulebase rules containers           *)
(* A container is [present, kids]; a child is [tag, name, uid] where tag   *)
(* is the pair <<namespace URI, local name>> ElementTree stores as         *)
(* "{uri}local", and uid stands for the element's identity (its            *)
(* attributes and subtree).                                                *)
(* File-system failures other than the two os.path.exists tests (an        *)
(* unparsable document, an unwritable output path) are outside the model.  *)
(***************************************************************************)
EXTENDS Integers, Sequences, FiniteSets

VARIABLES pc, args, xmlExists, csvExists, xmlFile, tree, rules_section, desired_order,
          csvRead, outFile, exitCode, raised, warned, noted, listed

vars == <<pc, args, xmlExists, csvExists, xmlFile, tree, rules_section, desired_order,
          csvRead, outFile, exitCode, raised, warned, noted, listed>>

(* ---------------------------- bounds ----------------------------------- *)

NumNames == 2
MaxRules == 2
MaxOrder == 2

(* ---------------------------- input sets ------------------------------- *)

NameTable == <<"r1", "r2", "r3", "r4">>

Names == {NameTable[i] : i \in 1..NumNames}

AbsentName == "zz"

ListNames == Names \cup {AbsentName}

GroupNames == {"dg1", "dg2"}

NsUri == "urn:pan"

SeqsUpTo(S, n) == UNION {[1..k -> S] : k \in 0..n}

MkCont(present, uri, names, base) ==
    [present |-> present,
     kids    |-> IF present
                 THEN [i \in 1..Len(names) |->
                         [tag |-> <<uri, "entry">>, name |-> names[i], uid |-> base + i]]
                 ELSE <<>>]

MkGroup(g, uri, names, p, q, base) ==
    [name |-> g,
     post |-> MkCont(p, uri, names, base),
     pre  |-> MkCont(q, uri, names, base + 10)]

GroupLists(uri, names) ==
    {<<>>}
    \cup {<<MkGroup("dg1", uri, names, p, q, 30)>> : p, q \in BOOLEAN}
    \cup {<<MkGroup("dg1", uri, names, p, q, 30), MkGroup("dg2", uri, names, TRUE, TRUE, 50)>> :
            p, q \in BOOLEAN}

Docs ==
    UNION {UNION {UNION {
        {[xmlns  |-> uri,
          shared |-> [post |-> MkCont(sp, uri, names, 10), pre |-> MkCont(sq, uri, names, 20)],
          groups |-> gl] : gl \in GroupLists(uri, names)}
        : sp, sq \in BOOLEAN} : names \in SeqsUpTo(Names, MaxRules)} : uri \in {"", NsUri}}

EmptyDoc ==
    [xmlns |-> "", shared |-> [post |-> MkCont(FALSE, "", <<>>, 0), pre |-> MkCont(FALSE, "", <<>>, 0)],
     groups |-> <<>>]

(* a name written with surrounding blanks in the order list *)
Padded == " r1 "

(* a row of the order list: empty, or a first field *)
CsvRows == {<<>>} \cup {<<n>> : n \in ListNames \cup {Padded}}

CsvFiles == SeqsUpTo(CsvRows, MaxOrder)

(* device_group "" stands for an option that was not given (None) *)
ArgSets == [list : BOOLEAN, shared : BOOLEAN, device_group : {""} \cup GroupNames]

(* ---------------------------- helpers ---------------------------------- *)

Range(s) == {s[i] : i \in 1..Len(s)}

NamesOf(s) == [i \in 1..Len(s) |-> s[i].name]

RECURSIVE SelectBy(_, _, _)
SelectBy(s, tag, i) ==
    IF i > Len(s) THEN <<>>
    ELSE IF s[i].tag = tag THEN <<s[i]>> \o SelectBy(s, tag, i + 1)
    ELSE SelectBy(s, tag, i + 1)

findall(children, tag) == SelectBy(children, tag, 1)

(* str.strip on the fields of the model *)
strip(field) == IF field = Padded THEN "r1" ELSE field

(* read_policy_order_from_csv: first field of every non-empty row, stripped *)
RECURSIVE read_policy_order_from_csv(_)
read_policy_order_from_csv(rows) ==
    IF rows = <<>> THEN <<>>
    ELSE IF Head(rows) = <<>> THEN read_policy_order_from_csv(Tail(rows))
    ELSE <<strip(Head(rows)[1])>> \o read_policy_order_from_csv(Tail(rows))

(* ---------------------------- find_rules_section ----------------------- *)

(* An element of the document carries the tag <<root namespace, local>>;   *)
(* a path step written with namespace uri resolves it iff the tags agree.  *)
StepMatches(root, uri, local) == <<uri, local>> = <<root.xmlns, local>>

NoRef == [sec |-> "none", idx |-> 0, base |-> "none"]

Found(sec, idx, base) == [ok |-> TRUE, err |-> "none", ref |-> [sec |-> sec, idx |-> idx, base |-> base]]

NotFound(err) == [ok |-> FALSE, err |-> err, ref |-> NoRef]

(* the name predicate dropped: any first device-group entry is taken *)
FindGroup_AnyName(root, uri, g) ==
    IF StepMatches(root, uri, "entry") /\ Len(root.groups) > 0 THEN 1 ELSE 0

(* root.find(".//device-group/entry[@name='g']"): first match in document order, 0 for None *)
FindGroup(root, uri, g) ==
    LET hits == {i \in 1..Len(root.groups) :
                    StepMatches(root, uri, "entry") /\ root.groups[i].name = g}
    IN IF hits = {} THEN 0 ELSE CHOOSE i \in hits : \A j \in hits : i <= j

(* the two rule bases probed in the opposite order *)
find_rules_section_PreFirst(root, device_group, shared) ==
    LET ns == root.xmlns
    IN IF shared
       THEN IF StepMatches(root, ns, "rules") /\ root.shared.pre.present
            THEN Found("shared", 0, "pre")
            ELSE IF StepMatches(root, ns, "rules") /\ root.shared.post.present
            THEN Found("shared", 0, "post")
            ELSE NotFound("target")
       ELSE LET dg == FindGroup(root, ns, device_group)
            IN IF dg = 0 THEN NotFound("group")
               ELSE IF StepMatches(root, ns, "rules") /\ root.groups[dg].pre.present
               THEN Found("group", dg, "pre")
               ELSE IF StepMatches(root, ns, "rules") /\ root.groups[dg].post.present
               THEN Found("group", dg, "post")
               ELSE NotFound("target")

find_rules_section(root, device_group, shared) ==
    LET ns == root.xmlns
    IN IF shared
       THEN IF StepMatches(root, ns, "rules") /\ root.shared.post.present
            THEN Found("shared", 0, "post")
            ELSE IF StepMatches(root, ns, "rules") /\ root.shared.pre.present
            THEN Found("shared", 0, "pre")
            ELSE NotFound("target")
       ELSE LET dg == FindGroup(root, ns, device_group)
            IN IF dg = 0 THEN NotFound("group")
               ELSE IF StepMatches(root, ns, "rules") /\ root.groups[dg].post.present
               THEN Found("group", dg, "post")
               ELSE IF StepMatches(root, ns, "rules") /\ root.groups[dg].pre.present
               THEN Found("group", dg, "pre")
               ELSE NotFound("target")

(* the container a reference designates, and the document with it replaced *)
ContAt(root, ref) ==
    IF ref.sec = "shared"
    THEN (IF ref.base = "post" THEN root.shared.post ELSE root.shared.pre)
    ELSE (IF ref.base = "post" THEN root.groups[ref.idx].post ELSE root.groups[ref.idx].pre)

WithKids(root, ref, kids) ==
    IF ref.sec = "shared"
    THEN (IF ref.base = "post"
          THEN [root EXCEPT !.shared.post.kids = kids]
          ELSE [root EXCEPT !.shared.pre.kids = kids])
    ELSE (IF ref.base = "post"
          THEN [root EXCEPT !.groups[ref.idx].post.kids = kids]
          ELSE [root EXCEPT !.groups[ref.idx].pre.kids = kids])

(* every container reference of a document *)
AllRefs(root) ==
    {[sec |-> "shared", idx |-> 0, base |-> b] : b \in {"post", "pre"}}
    \cup {[sec |-> "group", idx |-> i, base |-> b] : i \in 1..Len(root.groups), b \in {"post", "pre"}}

(* ---------------------------- reorder_policies ------------------------- *)

(* keys of the dict comprehension: a key keeps the position of its first insertion *)
RECURSIVE MapKeys(_, _)
MapKeys(entries, seen) ==
    IF entries = <<>> THEN <<>>
    ELSE IF Head(entries).name \in seen THEN MapKeys(Tail(entries), seen)
    ELSE <<Head(entries).name>> \o MapKeys(Tail(entries), seen \cup {Head(entries).name})

(* value of a key: the last entry inserted under it *)
MapGet(entries, name) ==
    LET hits == {i \in 1..Len(entries) : entries[i].name = name}
    IN entries[CHOOSE i \in hits : \A j \in hits : j <= i]

policy_map(children) ==
    LET entries == findall(children, <<"", "entry">>)
    IN [keys |-> MapKeys(entries, {}), entries |-> entries]

(* the loop leaves at the first name that is not in the map *)
RECURSIVE new_rules_StopAtMissing(_, _)
new_rules_StopAtMissing(pm, order) ==
    IF order = <<>> THEN <<>>
    ELSE IF Head(order) \in Range(pm.keys)
    THEN <<MapGet(pm.entries, Head(order))>> \o new_rules_StopAtMissing(pm, Tail(order))
    ELSE <<>>

RECURSIVE new_rules(_, _)
new_rules(pm, order) ==
    IF order = <<>> THEN <<>>
    ELSE IF Head(order) \in Range(pm.keys)
    THEN <<MapGet(pm.entries, Head(order))>> \o new_rules(pm, Tail(order))
    ELSE new_rules(pm, Tail(order))

RECURSIVE warnings(_, _)
warnings(pm, order) ==
    IF order = <<>> THEN <<>>
    ELSE IF Head(order) \in Range(pm.keys)
    THEN warnings(pm, Tail(order))
    ELSE <<Head(order)>> \o warnings(pm, Tail(order))

RECURSIVE RemainingFrom(_, _, _)
RemainingFrom(pm, keys, order) ==
    IF keys = <<>> THEN <<>>
    ELSE IF Head(keys) \in Range(order)
    THEN RemainingFrom(pm, Tail(keys), order)
    ELSE <<MapGet(pm.entries, Head(keys))>> \o RemainingFrom(pm, Tail(keys), order)

(* the unlisted entries collected back to front *)
remaining_Reversed(pm, order) ==
    LET r == RemainingFrom(pm, pm.keys, order)
    IN [i \in 1..Len(r) |-> r[Len(r) + 1 - i]]

remaining(pm, order) == RemainingFrom(pm, pm.keys, order)

(* the children of rules_section after lines 52-73 *)
reorder(children, order) ==
    LET pm == policy_map(children)
    IN new_rules(pm, order) \o remaining(pm, order)

(* ---------------------------- list_device_groups ----------------------- *)

(* root.findall(".//device-group/entry"): the path is written without a namespace *)
list_device_groups(root) ==
    IF StepMatches(root, "", "entry")
    THEN [i \in 1..Len(root.groups) |-> root.groups[i].name]
    ELSE <<>>

(* ---------------------------- main ------------------------------------- *)

Init ==
    /\ pc = "check_xml"
    /\ args \in ArgSets
    /\ xmlExists \in BOOLEAN
    /\ csvExists \in BOOLEAN
    /\ xmlFile = EmptyDoc
    /\ tree = EmptyDoc
    /\ rules_section = NoRef
    /\ desired_order = <<>>
    /\ csvRead = FALSE
    /\ outFile = [written |-> FALSE, doc |-> EmptyDoc]
    /\ exitCode = -1
    /\ raised = "none"
    /\ warned = <<>>
    /\ noted = <<>>
    /\ listed = <<>>

Exit(code) ==
    /\ pc' = "done"
    /\ exitCode' = code

(* lines 97-99 *)
XmlMissing ==
    /\ pc = "check_xml"
    /\ ~xmlExists
    /\ Exit(1)
    /\ UNCHANGED <<args, xmlExists, csvExists, xmlFile, tree, rules_section, desired_order,
                   csvRead, outFile, raised, warned, noted, listed>>

XmlPresent ==
    /\ pc = "check_xml"
    /\ xmlExists
    /\ pc' = "check_csv"
    /\ UNCHANGED <<args, xmlExists, csvExists, xmlFile, tree, rules_section, desired_order,
                   csvRead, outFile, exitCode, raised, warned, noted, listed>>

(* lines 101-103 *)
CsvMissing ==
    /\ pc = "check_csv"
    /\ ~args.list /\ ~csvExists
    /\ Exit(1)
    /\ UNCHANGED <<args, xmlExists, csvExists, xmlFile, tree, rules_section, desired_order,
                   csvRead, outFile, raised, warned, noted, listed>>

CsvNotNeededOrPresent ==
    /\ pc = "check_csv"
    /\ args.list \/ csvExists
    /\ pc' = "parse"
    /\ UNCHANGED <<args, xmlExists, csvExists, xmlFile, tree, rules_section, desired_order,
                   csvRead, outFile, exitCode, raised, warned, noted, listed>>

(* lines 105-106: the document read from xml_file *)
ParseXml ==
    /\ pc = "parse"
    /\ \E d \in Docs :
         /\ xmlFile' = d
         /\ tree' = d
    /\ pc' = "dispatch"
    /\ UNCHANGED <<args, xmlExists, csvExists, rules_section, desired_order,
                   csvRead, outFile, exitCode, raised, warned, noted, listed>>

(* lines 108-110 *)
ListMode ==
    /\ pc = "dispatch"
    /\ args.list
    /\ listed' = list_device_groups(tree)
    /\ Exit(0)
    /\ UNCHANGED <<args, xmlExists, csvExists, xmlFile, tree, rules_section, desired_order,
                   csvRead, outFile, raised, warned, noted>>

(* lines 112-114 *)
NoTarget ==
    /\ pc = "dispatch"
    /\ ~args.list
    /\ ~args.shared /\ args.device_group = ""
    /\ Exit(1)
    /\ UNCHANGED <<args, xmlExists, csvExists, xmlFile, tree, rules_section, desired_order,
                   csvRead, outFile, raised, warned, noted, listed>>

(* lines 116-117 and 48-51: reorder_policies parses xml_path again and locates the section; *)
(* a ValueError of find_rules_section is caught at lines 124-126                            *)
LocateFails ==
    /\ pc = "dispatch"
    /\ ~args.list
    /\ args.shared \/ args.device_group # ""
    /\ LET r == find_rules_section(xmlFile, args.device_group, args.shared)
       IN /\ ~r.ok
          /\ tree' = xmlFile
          /\ raised' = r.err
    /\ Exit(1)
    /\ UNCHANGED <<args, xmlExists, csvExists, xmlFile, rules_section, desired_order,
                   csvRead, outFile, warned, noted, listed>>

LocateOk ==
    /\ pc = "dispatch"
    /\ ~args.list
    /\ args.shared \/ args.device_group # ""
    /\ LET r == find_rules_section(xmlFile, args.device_group, args.shared)
       IN /\ r.ok
          /\ tree' = xmlFile
          /\ rules_section' = r.ref
    /\ pc' = "reorder"
    /\ UNCHANGED <<args, xmlExists, csvExists, xmlFile, desired_order,
                   csvRead, outFile, exitCode, raised, warned, noted, listed>>

(* lines 52-73: read the order list, rebuild the children of rules_section *)
Reorder ==
    /\ pc = "reorder"
    /\ \E rows \in CsvFiles :
         LET order == read_policy_order_from_csv(rows)
             kids  == ContAt(tree, rules_section).kids
             pm    == policy_map(kids)
         IN /\ desired_order' = order
            /\ warned' = warnings(pm, order)
            /\ noted' = NamesOf(remaining(pm, order))
            /\ tree' = WithKids(tree, rules_section, reorder(kids, order))
    /\ csvRead' = TRUE
    /\ pc' = "write"
    /\ UNCHANGED <<args, xmlExists, csvExists, xmlFile, rules_section,
                   outFile, exitCode, raised, listed>>

(* lines 75-76 *)
WriteOutput ==
    /\ pc = "write"
    /\ outFile' = [written |-> TRUE, doc |-> tree]
    /\ Exit(0)
    /\ UNCHANGED <<args, xmlExists, csvExists, xmlFile, tree, rules_section, desired_order,
                   csvRead, raised, warned, noted, listed>>

Next ==
    \/ XmlMissing
    \/ XmlPresent
    \/ CsvMissing
    \/ CsvNotNeededOrPresent
    \/ ParseXml
    \/ ListMode
    \/ NoTarget
    \/ LocateFails
    \/ LocateOk
    \/ Reorder
    \/ WriteOutput

Spec == Init /\ [][Next]_vars

TypeOK ==
    /\ pc \in {"check_xml", "check_csv", "parse", "dispatch", "reorder", "write", "done"}
    /\ exitCode \in {-1, 0, 1}
    /\ (pc = "done") = (exitCode # -1)

(* ---------------------------- vocabulary of the properties ------------- *)

(* the run went through reorder_policies to the end *)
Reordered == pc = "done" /\ outFile.written

(* children of the target container in the input document and in the output *)
Before == ContAt(xmlFile, rules_section).kids

After == ContAt(outFile.doc, rules_section).kids

NoRepeats(s) == \A i, j \in 1..Len(s) : s[i] = s[j] => i = j

Count(s, x) == Cardinality({i \in 1..Len(s) : s[i] = x})

IsPermutation(s, t) ==
    /\ Len(s) = Len(t)
    /\ \A x \in Range(s) \cup Range(t) : Count(s, x) = Count(t, x)

RECURSIVE Keep(_, _)
Keep(s, S) ==
    IF s = <<>> THEN <<>>
    ELSE IF Head(s) \in S THEN <<Head(s)>> \o Keep(Tail(s), S)
    ELSE Keep(Tail(s), S)

(* C1: when the target container holds uniquely named entries and the order *)
(* list has no repeated name, the children written are a permutation of the *)
(* children read.                                                           *)
C1_Permutation ==
    (Reordered /\ NoRepeats(NamesOf(Before)) /\ NoRepeats(desired_order))
        => IsPermutation(Before, After)

(* C2: under the same conditions the output order is the listed names that  *)
(* exist, in list order, then the unlisted entries in document order.       *)
C2_OutputOrder ==
    (Reordered /\ NoRepeats(NamesOf(Before)) /\ NoRepeats(desired_order))
        => NamesOf(After) = Keep(desired_order, Range(NamesOf(Before)))
                            \o Keep(NamesOf(Before), Names \ Range(desired_order))

(* the structurally identical document that declares no namespace *)
WithoutNs(c) == [present |-> c.present,
                 kids |-> [i \in 1..Len(c.kids) |-> [c.kids[i] EXCEPT !.tag = <<"", "entry">>]]]

StripNamespace(d) ==
    [xmlns  |-> "",
     shared |-> [post |-> WithoutNs(d.shared.post), pre |-> WithoutNs(d.shared.pre)],
     groups |-> [i \in 1..Len(d.groups) |->
                   [name |-> d.groups[i].name,
                    post |-> WithoutNs(d.groups[i].post),
                    pre  |-> WithoutNs(d.groups[i].pre)]]]

Identities(s) == [i \in 1..Len(s) |-> <<s[i].name, s[i].uid>>]

(* C3: a document that declares a namespace is handled like the same         *)
(* document without one: the locator resolves the same container and the     *)
(* written container holds the same entries in the same order.               *)
C3_NamespaceTransparent ==
    Reordered =>
        LET plain == StripNamespace(xmlFile)
            r     == find_rules_section(plain, args.device_group, args.shared)
        IN /\ r.ok
           /\ r.ref = rules_section
           /\ Identities(After) = Identities(reorder(ContAt(plain, r.ref).kids, desired_order))

(* C4: a name listed more than once and present in the container is emitted  *)
(* once: the written container has as many entries as the one read and no    *)
(* entry twice. Stated for documents without a namespace, where C3's defect  *)
(* does not interfere.                                                       *)
C4_RepeatedNameOnce ==
    (/\ Reordered
     /\ xmlFile.xmlns = ""
     /\ NoRepeats(NamesOf(Before))
     /\ \E n \in Range(NamesOf(Before)) : Count(desired_order, n) > 1)
        => /\ Len(After) = Len(Before)
           /\ NoRepeats(After)

(* the order list with every occurrence of a name removed *)
Without(s, n) == Keep(s, (Range(s) \ {n}))

(* C5: a listed name that no entry of the container has does not fail the    *)
(* run: exit code 0, output written, no entry of that name in the output, a  *)
(* warning for the name, and the other entries placed as if the name had not *)
(* been listed.                                                              *)
C5_AbsentNameHarmless ==
    \A n \in Range(desired_order) :
        (pc = "done" /\ csvRead /\ n \notin Range(NamesOf(Before)))
            => /\ exitCode = 0
               /\ outFile.written
               /\ n \notin Range(NamesOf(After))
               /\ n \in Range(warned)
               /\ After = reorder(Before, Without(desired_order, n))

C5_Witness ==
    /\ Reordered
    /\ xmlFile.xmlns = ""
    /\ AbsentName \in Range(desired_order)
    /\ Len(After) >= 2
    /\ After # Before

(* the first device-group entry with the selected name; 0 when there is none *)
Selected(d, g) ==
    IF \E i \in 1..Len(d.groups) : d.groups[i].name = g
    THEN CHOOSE i \in 1..Len(d.groups) :
            /\ d.groups[i].name = g
            /\ \A j \in 1..(i - 1) : d.groups[j].name # g
    ELSE 0

(* main got past the file checks, parsed the document and was not listing *)
Dispatched == pc = "done" /\ xmlExists /\ csvExists /\ ~args.list

GroupMissing == ~args.shared /\ args.device_group # "" /\ Selected(xmlFile, args.device_group) = 0

GroupWithoutRules ==
    /\ ~args.shared /\ args.device_group # ""
    /\ Selected(xmlFile, args.device_group) # 0
    /\ ~xmlFile.groups[Selected(xmlFile, args.device_group)].post.present
    /\ ~xmlFile.groups[Selected(xmlFile, args.device_group)].pre.present

SharedWithoutRules == args.shared /\ ~xmlFile.shared.post.present /\ ~xmlFile.shared.pre.present

(* C6: a missing device group, a device group without security rules in      *)
(* either rule base, or shared mode without shared security rules fails the  *)
(* run: find_rules_section raises, exit code 1, nothing written, nothing     *)
(* reordered.                                                                *)
C6_MissingTargetFails ==
    (Dispatched /\ (GroupMissing \/ GroupWithoutRules \/ SharedWithoutRules))
        => /\ raised # "none"
           /\ raised = (IF GroupMissing THEN "group" ELSE "target")
           /\ exitCode = 1
           /\ ~outFile.written
           /\ ~csvRead
           /\ tree = xmlFile

C6_Witness ==
    /\ Dispatched
    /\ GroupWithoutRules
    /\ Len(xmlFile.groups) = 2
    /\ xmlFile.shared.post.present
    /\ Len(xmlFile.shared.post.kids) >= 2
    /\ exitCode = 1

(* the container the selection designates: post-rulebase when present, else pre-rulebase *)
Designated(d) ==
    IF args.shared
    THEN [sec |-> "shared", idx |-> 0,
          base |-> IF d.shared.post.present THEN "post" ELSE "pre"]
    ELSE [sec |-> "group", idx |-> Selected(d, args.device_group),
          base |-> IF d.groups[Selected(d, args.device_group)].post.present THEN "post" ELSE "pre"]

(* C7: at every point of a run, every container other than the designated    *)
(* one holds, in memory and in the written output, the children it had in    *)
(* the input, in the same order; the container that is reordered is the      *)
(* designated one.                                                           *)
C7_OnlyTargetChanges ==
    /\ (pc \in {"reorder", "write"} \/ Reordered) => rules_section = Designated(xmlFile)
    /\ \A ref \in AllRefs(xmlFile) :
         ((pc \in {"reorder", "write"} \/ Reordered) => ref # Designated(xmlFile))
            => /\ ContAt(tree, ref) = ContAt(xmlFile, ref)
               /\ outFile.written => ContAt(outFile.doc, ref) = ContAt(xmlFile, ref)
    /\ outFile.written =>
         /\ outFile.doc.xmlns = xmlFile.xmlns
         /\ Len(outFile.doc.groups) = Len(xmlFile.groups)

C7_Witness ==
    /\ Reordered
    /\ rules_section = [sec |-> "group", idx |-> 1, base |-> "pre"]
    /\ Len(xmlFile.groups) = 2
    /\ xmlFile.shared.post.present /\ xmlFile.shared.pre.present
    /\ Len(Before) >= 2
    /\ After # Before
    /\ IsPermutation(Before, After)

(* C8: in listing mode with the input document present, main exits 0 after   *)
(* printing the name of every device-group entry, without reading the order  *)
(* list, writing the output or changing the document, whatever the other     *)
(* flags.                                                                    *)
C8_ListingMode ==
    (pc = "done" /\ args.list /\ xmlExists)
        => /\ exitCode = 0
           /\ ~csvRead
           /\ ~outFile.written
           /\ tree = xmlFile
           /\ listed = [i \in 1..Len(xmlFile.groups) |-> xmlFile.groups[i].name]

(* one whole run of reorder_policies on a document *)
RunOn(d) ==
    LET r == find_rules_section(d, args.device_group, args.shared)
    IN IF r.ok THEN WithKids(d, r.ref, reorder(ContAt(d, r.ref).kids, desired_order)) ELSE d

(* C9: running the transformation again on its own output, with the same     *)
(* order list and selection, finds the same container and writes the same    *)
(* document.                                                                 *)
C9_Idempotent ==
    Reordered =>
        /\ find_rules_section(outFile.doc, args.device_group, args.shared).ok
        /\ find_rules_section(outFile.doc, args.device_group, args.shared).ref = rules_section
        /\ RunOn(outFile.doc) = outFile.doc

C9_Witness ==
    /\ Reordered
    /\ xmlFile.xmlns = ""
    /\ ~NoRepeats(desired_order)
    /\ Len(Before) = 2
    /\ NoRepeats(NamesOf(Before))
    /\ After # Before
    /\ RunOn(xmlFile) = outFile.doc

(* the last entry of each name, in the order in which the names first occur *)
RECURSIVE FirstPositions(_, _)
FirstPositions(names, seen) ==
    IF names = <<>> THEN <<>>
    ELSE IF Head(names) \in seen THEN FirstPositions(Tail(names), seen)
    ELSE <<Head(names)>> \o FirstPositions(Tail(names), seen \cup {Head(names)})

LastOf(s, n) == s[CHOOSE i \in 1..Len(s) : s[i].name = n /\ \A j \in (i + 1)..Len(s) : s[j].name # n]

(* C10: with same-named entries in the container the run succeeds and the    *)
(* output holds exactly one entry per distinct name, the last one in         *)
(* document order; unlisted names follow in the order of their first         *)
(* occurrence.                                                               *)
C10_DuplicatesCollapse ==
    (Reordered /\ ~NoRepeats(NamesOf(Before)))
        => /\ exitCode = 0
           /\ NoRepeats(NamesOf(After))
           /\ Range(NamesOf(After)) = Range(NamesOf(Before))
           /\ \A e \in Range(After) : e = LastOf(Before, e.name)
           /\ Keep(NamesOf(After), Names \ Range(desired_order))
                = Keep(FirstPositions(NamesOf(Before), {}), Names \ Range(desired_order))

====
